---- MODULE Spec2Model ----
(***************************************************************************)
(* Model of the log-attribute validator and enricher of                    *)
(* src/src/log_attributes_validator.py.                                     *)
(*                                                                         *)
(* Python values are tagged records: PyStr("x"), PyInt(3), PyBool(TRUE),   *)
(* PyNone.  A dict is the sequence of its items in insertion order, each   *)
(* item a record [k |-> key, v |-> value] with pairwise distinct keys.      *)
(* Python text is a TLA+ string; a character is a string of length one.    *)
(***************************************************************************)
EXTENDS Integers, Sequences, FiniteSets, TLC

(***************************************************************************)
(* Bounds of the explored inputs.                                          *)
(***************************************************************************)
MaxExtra == 1

\* the HTTP requests in flight through the log_requests middleware
MaxRequests == 2

(***************************************************************************)
(* Python values                                                           *)
(***************************************************************************)
PyStr(s) == [t |-> "str", s |-> s, n |-> 0]
PyInt(n) == [t |-> "int", s |-> "", n |-> n]
PyBool(b) == [t |-> "bool", s |-> "", n |-> IF b THEN 1 ELSE 0]
PyNone == [t |-> "none", s |-> "", n |-> 0]

IsStr(v) == v.t = "str"

\* bool(v): the truth value Python's `not` tests
Truthy(v) ==
    CASE v.t = "str" -> v.s # ""
      [] v.t = "int" -> v.n # 0
      [] v.t = "bool" -> v.n # 0
      [] OTHER -> FALSE

(***************************************************************************)
(* Text                                                                    *)
(***************************************************************************)
UpperChars == "ABCDEFGHIJKLMNOPQRSTUVWXYZ"
LowerChars == "abcdefghijklmnopqrstuvwxyz"
DigitChars == "0123456789"

Char(s, i) == SubSeq(s, i, i)

CharsOf(s) == {Char(s, i) : i \in 1..Len(s)}

Uppers == CharsOf(UpperChars)
Lowers == CharsOf(LowerChars)
Digits == CharsOf(DigitChars)

LowerMap == [c \in Uppers |-> Char(LowerChars, CHOOSE i \in 1..26 : Char(UpperChars, i) = c)]

LowerChar(c) == IF c \in Uppers THEN LowerMap[c] ELSE c

\* str.lower(), the string split in halves so that the evaluation stays shallow
RECURSIVE Lower(_)
Lower(s) ==
    IF Len(s) = 0 THEN ""
    ELSE IF Len(s) = 1 THEN LowerChar(s)
    ELSE Lower(SubSeq(s, 1, Len(s) \div 2)) \o Lower(SubSeq(s, (Len(s) \div 2) + 1, Len(s)))

\* needle in hay
Contains(needle, hay) ==
    \E i \in 1..(Len(hay) - Len(needle) + 1) : SubSeq(hay, i, i + Len(needle) - 1) = needle

RECURSIVE IntStr(_)
IntStr(n) ==
    IF n < 0 THEN "-" \o IntStr(0 - n)
    ELSE IF n < 10 THEN Char(DigitChars, n + 1)
    ELSE IntStr(n \div 10) \o Char(DigitChars, (n % 10) + 1)

RECURSIVE EscapeFrom(_, _, _)
EscapeFrom(s, i, q) ==
    IF i > Len(s) THEN ""
    ELSE (IF Char(s, i) = q \/ Char(s, i) = "\\" THEN "\\" \o Char(s, i) ELSE Char(s, i))
         \o EscapeFrom(s, i + 1, q)

\* repr() of a str of printable ASCII characters
StrRepr(s) ==
    LET q == IF Contains("'", s) /\ ~Contains("\"", s) THEN "\"" ELSE "'"
    IN q \o EscapeFrom(s, 1, q) \o q

\* repr(v)
Repr(v) ==
    CASE v.t = "str" -> StrRepr(v.s)
      [] v.t = "int" -> IntStr(v.n)
      [] v.t = "bool" -> (IF v.n # 0 THEN "True" ELSE "False")
      [] OTHER -> "None"

\* str(v), as an f-string formats {v}
Format(v) == IF v.t = "str" THEN v.s ELSE Repr(v)

(***************************************************************************)
(* Dicts                                                                   *)
(***************************************************************************)
Keys(d) == {d[i].k : i \in 1..Len(d)}

Has(d, key) == key \in Keys(d)

\* d[key], for a key of d
Get(d, key) == d[CHOOSE i \in 1..Len(d) : d[i].k = key].v

\* d[key] = value for a key that d lacks
Put(d, key, value) == Append(d, [k |-> key, v |-> value])

RECURSIVE ItemsStr(_, _)
ItemsStr(d, i) ==
    IF i > Len(d) THEN ""
    ELSE (IF i > 1 THEN ", " ELSE "") \o StrRepr(d[i].k) \o ": " \o Repr(d[i].v)
         \o ItemsStr(d, i + 1)

\* str(d)
DictStr(d) == "{" \o ItemsStr(d, 1) \o "}"

(***************************************************************************)
(* Enumerations and tables of the validator                                *)
(***************************************************************************)
LogLevel == <<"FATAL", "ERROR", "WARN", "INFO", "DEBUG", "TRACE">>

EventDomain == <<"auth", "session", "dictation_frontend", "dictation_backend", "worklist", "viewer">>

EventType == <<"access", "error", "audit", "validation", "performance", "security">>

MANDATORY_ATTRIBUTES ==
    <<"service.name", "deployment.environment", "log.level", "event.domain", "event.type">>

FORBIDDEN_KEYWORDS ==
    <<"password", "secret", "token", "api_key", "credit_card", "ssn", "national_id">>

VALID_ENVIRONMENTS == <<"prod", "staging", "dev", "test">>

Range(seq) == {seq[i] : i \in 1..Len(seq)}

\* value in [list of str]
InList(v, list) == IsStr(v) /\ v.s \in Range(list)

\* the first index of a loop, in order, among those of S that hit; 0 when none does
FirstIndex(S) == IF S = {} THEN 0 ELSE CHOOSE i \in S : \A j \in S : i <= j

\* ValidateValues with the environment check placed before the log.level check
ValidateValues_EnvironmentFirst(cleaned) ==
    LET log_level == Get(cleaned, "log.level")
        env == Get(cleaned, "deployment.environment")
        event_domain == Get(cleaned, "event.domain")
        event_type == Get(cleaned, "event.type")
        attributes_str == Lower(DictStr(cleaned))
        Hit(keyword) == Contains(Lower(keyword), attributes_str)
        kw == FirstIndex({i \in 1..Len(FORBIDDEN_KEYWORDS) : Hit(FORBIDDEN_KEYWORDS[i])})
        Fail(msg) == [is_valid |-> FALSE, error_message |-> msg, cleaned |-> cleaned]
    IN IF ~InList(env, VALID_ENVIRONMENTS)
       THEN Fail("Invalid deployment.environment: " \o Format(env))
       ELSE IF ~InList(log_level, LogLevel)
       THEN Fail("Invalid log.level: " \o Format(log_level))
       ELSE IF ~InList(event_domain, EventDomain)
       THEN Fail("Invalid event.domain: " \o Format(event_domain))
       ELSE IF ~InList(event_type, EventType)
       THEN Fail("Invalid event.type: " \o Format(event_type))
       ELSE IF kw # 0
       THEN Fail("Forbidden keyword detected: " \o FORBIDDEN_KEYWORDS[kw])
       ELSE [is_valid |-> TRUE, error_message |-> "", cleaned |-> cleaned]

\* the outcome of validate_attributes after the mandatory-field loop
ValidateValues(cleaned) ==
    LET log_level == Get(cleaned, "log.level")
        env == Get(cleaned, "deployment.environment")
        event_domain == Get(cleaned, "event.domain")
        event_type == Get(cleaned, "event.type")
        attributes_str == Lower(DictStr(cleaned))
        Hit(keyword) == Contains(Lower(keyword), attributes_str)
        kw == FirstIndex({i \in 1..Len(FORBIDDEN_KEYWORDS) : Hit(FORBIDDEN_KEYWORDS[i])})
        Fail(msg) == [is_valid |-> FALSE, error_message |-> msg, cleaned |-> cleaned]
    IN IF ~InList(log_level, LogLevel)
       THEN Fail("Invalid log.level: " \o Format(log_level))
       ELSE IF ~InList(env, VALID_ENVIRONMENTS)
       THEN Fail("Invalid deployment.environment: " \o Format(env))
       ELSE IF ~InList(event_domain, EventDomain)
       THEN Fail("Invalid event.domain: " \o Format(event_domain))
       ELSE IF ~InList(event_type, EventType)
       THEN Fail("Invalid event.type: " \o Format(event_type))
       ELSE IF kw # 0
       THEN Fail("Forbidden keyword detected: " \o FORBIDDEN_KEYWORDS[kw])
       ELSE [is_valid |-> TRUE, error_message |-> "", cleaned |-> cleaned]

\* validate_attributes testing only `attr not in cleaned`, not the value's truth
validate_attributes_PresenceOnly(attributes) ==
    LET cleaned == attributes
        Missing(attr) == ~Has(cleaned, attr)
        m == FirstIndex({i \in 1..Len(MANDATORY_ATTRIBUTES) : Missing(MANDATORY_ATTRIBUTES[i])})
    IN IF m # 0
       THEN [is_valid |-> FALSE,
             error_message |-> "Missing mandatory attribute: " \o MANDATORY_ATTRIBUTES[m],
             cleaned |-> cleaned]
       ELSE ValidateValues(cleaned)

\* LogAttributesValidator.validate_attributes; cleaned, the copy of the
\* attributes (the empty dict for an empty or missing one), holds the same items
validate_attributes(attributes) ==
    LET cleaned == attributes
        Missing(attr) == ~Has(cleaned, attr) \/ ~Truthy(Get(cleaned, attr))
        m == FirstIndex({i \in 1..Len(MANDATORY_ATTRIBUTES) : Missing(MANDATORY_ATTRIBUTES[i])})
    IN IF m # 0
       THEN [is_valid |-> FALSE,
             error_message |-> "Missing mandatory attribute: " \o MANDATORY_ATTRIBUTES[m],
             cleaned |-> cleaned]
       ELSE ValidateValues(cleaned)

(***************************************************************************)
(* strip_pii: three re.sub passes, each replacing the leftmost             *)
(* non-overlapping matches of its pattern                                  *)
(***************************************************************************)
Letters == Uppers \cup Lowers

WordChars == Letters \cup Digits \cup {"_"}

Whitespace == {" ", "\t", "\n", "\r", "\f"}

LocalChars == Letters \cup Digits \cup {".", "_", "%", "+", "-"}

DomainChars == Letters \cup Digits \cup {".", "-"}

\* the class [A-Z|a-z] of the pattern, which holds the bar
TldChars == Letters \cup {"|"}

IsWordAt(s, i) == i >= 1 /\ i <= Len(s) /\ Char(s, i) \in WordChars

\* \b between the characters i-1 and i
Boundary(s, i) == IsWordAt(s, i - 1) # IsWordAt(s, i)

\* the first position from p on whose character is outside class
RunEnd(s, p, class) ==
    CHOOSE j \in p..(Len(s) + 1) :
        /\ \A k \in p..(j - 1) : Char(s, k) \in class
        /\ j = Len(s) + 1 \/ Char(s, j) \notin class

Max(S) == CHOOSE x \in S : \A y \in S : y <= x

\* \d{4} at p: the position after it, or 0
Digits4(s, p) ==
    IF p >= 1 /\ p + 3 <= Len(s) /\ \A k \in p..(p + 3) : Char(s, k) \in Digits
    THEN p + 4 ELSE 0

\* [-\s]? at p: the position after it
OptSep(s, p) ==
    IF p >= 1 /\ p <= Len(s) /\ Char(s, p) \in ({"-"} \cup Whitespace) THEN p + 1 ELSE p

\* \b(?:\d{4}[-\s]?){3}\d{4}\b matched at i: the position after the match, or 0
CardEnd(s, i) ==
    LET g1 == Digits4(s, i)
        g2 == IF g1 = 0 THEN 0 ELSE Digits4(s, OptSep(s, g1))
        g3 == IF g2 = 0 THEN 0 ELSE Digits4(s, OptSep(s, g2))
        g4 == IF g3 = 0 THEN 0 ELSE Digits4(s, OptSep(s, g3))
    IN IF Boundary(s, i) /\ g4 # 0 /\ Boundary(s, g4) THEN g4 ELSE 0

\* \b[A-Za-z0-9._%+-]+@[A-Za-z0-9.-]+\.[A-Z|a-z]{2,}\b matched at i
EmailEnd(s, i) ==
    LET a == RunEnd(s, i, LocalChars)
        b == RunEnd(s, a + 1, DomainChars)
        Ends(p) == {e \in (p + 3)..RunEnd(s, p + 1, TldChars) : Boundary(s, e)}
        Dots == {p \in (a + 2)..(b - 1) : Char(s, p) = "." /\ Ends(p) # {}}
    IN IF Boundary(s, i) /\ a > i /\ a <= Len(s) /\ Char(s, a) = "@" /\ Dots # {}
       THEN Max(Ends(Max(Dots))) ELSE 0

\* \b09\d{8}\b matched at i
PhoneEnd(s, i) ==
    IF /\ Boundary(s, i)
       /\ i + 9 <= Len(s)
       /\ SubSeq(s, i, i + 1) = "09"
       /\ \A k \in (i + 2)..(i + 9) : Char(s, k) \in Digits
       /\ Boundary(s, i + 10)
    THEN i + 10 ELSE 0

MatchEnd(pattern, s, i) ==
    CASE pattern = "card" -> CardEnd(s, i)
      [] pattern = "email" -> EmailEnd(s, i)
      [] OTHER -> PhoneEnd(s, i)

RECURSIVE SubFrom(_, _, _, _)
SubFrom(pattern, repl, s, i) ==
    IF i > Len(s) THEN ""
    ELSE LET e == MatchEnd(pattern, s, i)
         IN IF e # 0 THEN repl \o SubFrom(pattern, repl, s, e)
            ELSE Char(s, i) \o SubFrom(pattern, repl, s, i + 1)

\* re.sub(pattern, repl, s)
Sub(pattern, repl, s) == SubFrom(pattern, repl, s, 1)

\* strip_pii with the phone pass placed before the e-mail pass
strip_pii_steps_PhoneBeforeEmail(text) ==
    LET card == Sub("card", "[REDACTED_CARD]", text)
        phone == Sub("phone", "[REDACTED_PHONE]", card)
        email == Sub("email", "[REDACTED_EMAIL]", phone)
    IN <<card, phone, email>>

\* the successive values of `text` in strip_pii, after each re.sub
strip_pii_steps(text) ==
    LET card == Sub("card", "[REDACTED_CARD]", text)
        email == Sub("email", "[REDACTED_EMAIL]", card)
        phone == Sub("phone", "[REDACTED_PHONE]", email)
    IN <<card, email, phone>>

\* LogAttributesValidator.strip_pii
strip_pii(text) == strip_pii_steps(text)[3]

(***************************************************************************)
(* The enricher.  environ is the process environment: a function from the  *)
(* names of the variables that are set to their values.  A call either     *)
(* returns (raised = FALSE) or leaves by an uncaught exception.            *)
(***************************************************************************)
\* os.getenv(name, default)
getenv_EmptyDefault(environ, name, default) ==
    IF name \in DOMAIN environ THEN environ[name] ELSE ""

getenv(environ, name, default) == IF name \in DOMAIN environ THEN environ[name] ELSE default

NamespaceKeys == <<"auth", "session", "dictation_frontend", "dictation_backend", "worklist", "viewer">>

NamespaceValues == <<"identity", "identity", "frontend", "backend", "frontend", "frontend">>

\* LogAttributesEnricher._infer_namespace: service_name.lower() raises
\* AttributeError on a value that is not a str
_infer_namespace(service_name) ==
    IF ~IsStr(service_name) THEN [raised |-> TRUE, value |-> ""]
    ELSE LET name == Lower(service_name.s)
             In(key) == Contains(key, name)
             hit == FirstIndex({i \in 1..Len(NamespaceKeys) : In(NamespaceKeys[i])})
         IN [raised |-> FALSE,
             value |-> IF hit # 0 THEN NamespaceValues[hit] ELSE "unknown"]

\* _infer_category falling back to "unknown", as _infer_namespace does
_infer_category_UnknownFallback(event_domain) ==
    CASE event_domain = PyStr("auth") -> "authentication"
      [] event_domain = PyStr("session") -> "backend"
      [] event_domain = PyStr("dictation_frontend") -> "frontend"
      [] event_domain = PyStr("dictation_backend") -> "backend"
      [] event_domain = PyStr("worklist") -> "frontend"
      [] event_domain = PyStr("viewer") -> "frontend"
      [] OTHER -> "unknown"

\* LogAttributesEnricher._infer_category
_infer_category(event_domain) ==
    CASE event_domain = PyStr("auth") -> "authentication"
      [] event_domain = PyStr("session") -> "backend"
      [] event_domain = PyStr("dictation_frontend") -> "frontend"
      [] event_domain = PyStr("dictation_backend") -> "backend"
      [] event_domain = PyStr("worklist") -> "frontend"
      [] event_domain = PyStr("viewer") -> "frontend"
      [] OTHER -> "frontend"

\* SetDefault assigning the default although the key is present
SetDefault_Overwriting(d, key, value) ==
    IF Has(d, key)
    THEN [i \in 1..Len(d) |-> IF d[i].k = key THEN [k |-> key, v |-> PyStr(value)] ELSE d[i]]
    ELSE Put(d, key, PyStr(value))

\* if key not in d: d[key] = value
SetDefault(d, key, value) == IF Has(d, key) THEN d ELSE Put(d, key, PyStr(value))

\* enrich_from_service_context deriving service.namespace before service.name
\* is filled, and only from a service.name the caller supplied
enrich_NamespaceBeforeName(attributes, environ) ==
    LET ns == _infer_namespace(Get(attributes, "service.name"))
        e0 == IF ~Has(attributes, "service.namespace") /\ Has(attributes, "service.name")
              THEN Put(attributes, "service.namespace", PyStr(ns.value))
              ELSE attributes
        e1 == SetDefault(e0, "service.name",
                         getenv(environ, "OTEL_SERVICE_NAME", "unknown-service"))
        e2 == SetDefault(e1, "deployment.environment", getenv(environ, "ENVIRONMENT", "dev"))
        e3 == SetDefault(e2, "service.version", getenv(environ, "SERVICE_VERSION", "0.0.0"))
        e4 == SetDefault(e3, "host.name", getenv(environ, "HOSTNAME", "unknown-host"))
        e6 == IF ~Has(e4, "event.category") /\ Has(e4, "event.domain")
              THEN Put(e4, "event.category", PyStr(_infer_category(Get(e4, "event.domain"))))
              ELSE e4
    IN IF ~Has(attributes, "service.namespace") /\ Has(attributes, "service.name") /\ ns.raised
       THEN [raised |-> TRUE, enriched |-> <<>>]
       ELSE [raised |-> FALSE, enriched |-> e6]

\* enrich_from_service_context deriving event.category from
\* enriched.get("event.domain", "") without testing that event.domain is present
enrich_CategoryWithoutDomain(attributes, environ) ==
    LET e1 == SetDefault(attributes, "service.name",
                         getenv(environ, "OTEL_SERVICE_NAME", "unknown-service"))
        e2 == SetDefault(e1, "deployment.environment", getenv(environ, "ENVIRONMENT", "dev"))
        e3 == SetDefault(e2, "service.version", getenv(environ, "SERVICE_VERSION", "0.0.0"))
        e4 == SetDefault(e3, "host.name", getenv(environ, "HOSTNAME", "unknown-host"))
        ns == _infer_namespace(Get(e4, "service.name"))
        e5 == IF Has(e4, "service.namespace") THEN e4
              ELSE Put(e4, "service.namespace", PyStr(ns.value))
        domain == IF Has(e5, "event.domain") THEN Get(e5, "event.domain") ELSE PyStr("")
        e6 == IF ~Has(e5, "event.category")
              THEN Put(e5, "event.category", PyStr(_infer_category(domain)))
              ELSE e5
    IN IF ~Has(e4, "service.namespace") /\ ns.raised
       THEN [raised |-> TRUE, enriched |-> <<>>]
       ELSE [raised |-> FALSE, enriched |-> e6]

\* LogAttributesEnricher.enrich_from_service_context, on a copy of the
\* attributes; the exception of _infer_namespace is not caught
enrich_from_service_context(attributes, environ) ==
    LET e1 == SetDefault(attributes, "service.name",
                         getenv(environ, "OTEL_SERVICE_NAME", "unknown-service"))
        e2 == SetDefault(e1, "deployment.environment", getenv(environ, "ENVIRONMENT", "dev"))
        e3 == SetDefault(e2, "service.version", getenv(environ, "SERVICE_VERSION", "0.0.0"))
        e4 == SetDefault(e3, "host.name", getenv(environ, "HOSTNAME", "unknown-host"))
        ns == _infer_namespace(Get(e4, "service.name"))
        e5 == IF Has(e4, "service.namespace") THEN e4
              ELSE Put(e4, "service.namespace", PyStr(ns.value))
        e6 == IF ~Has(e5, "event.category") /\ Has(e5, "event.domain")
              THEN Put(e5, "event.category", PyStr(_infer_category(Get(e5, "event.domain"))))
              ELSE e5
    IN IF ~Has(e4, "service.namespace") /\ ns.raised
       THEN [raised |-> TRUE, enriched |-> <<>>]
       ELSE [raised |-> FALSE, enriched |-> e6]

(***************************************************************************)
(* validate_and_enrich_log_record                                          *)
(***************************************************************************)
\* any(keyword.lower() in log_body.lower() for keyword in FORBIDDEN_KEYWORDS)
BodyHasKeyword(log_body) ==
    \E i \in 1..Len(FORBIDDEN_KEYWORDS) :
        Contains(Lower(FORBIDDEN_KEYWORDS[i]), Lower(log_body))

\* BodyWarnings logging the body as it came, without strip_pii
BodyWarnings_RawBody(log_body) ==
    IF BodyHasKeyword(log_body)
    THEN <<"Log body contains forbidden keywords", "Log body sanitized: " \o log_body>>
    ELSE <<>>

\* the logger.warning calls of the body check, in order
BodyWarnings(log_body) ==
    IF BodyHasKeyword(log_body)
    THEN <<"Log body contains forbidden keywords",
           "Log body sanitized: " \o strip_pii(log_body)>>
    ELSE <<>>

\* validate_and_enrich_log_record rejecting a record whose body holds a keyword
validate_and_enrich_RejectingBody(log_body, attributes, environ) ==
    LET e == enrich_from_service_context(attributes, environ)
        v == validate_attributes(e.enriched)
    IN IF e.raised
       THEN [raised |-> TRUE, is_valid |-> FALSE, attributes |-> <<>>, error |-> "",
             warnings |-> <<>>]
       ELSE IF ~v.is_valid
       THEN [raised |-> FALSE, is_valid |-> FALSE, attributes |-> v.cleaned,
             error |-> v.error_message,
             warnings |-> <<"Log validation failed: " \o v.error_message>>]
       ELSE [raised |-> FALSE, is_valid |-> ~BodyHasKeyword(log_body),
             attributes |-> v.cleaned, error |-> "", warnings |-> BodyWarnings(log_body)]

\* validate_and_enrich_log_record validating the caller's attributes instead
\* of the enriched ones
validate_and_enrich_ValidatingInput(log_body, attributes, environ) ==
    LET e == enrich_from_service_context(attributes, environ)
        v == validate_attributes(attributes)
    IN IF e.raised
       THEN [raised |-> TRUE, is_valid |-> FALSE, attributes |-> <<>>, error |-> "",
             warnings |-> <<>>]
       ELSE IF ~v.is_valid
       THEN [raised |-> FALSE, is_valid |-> FALSE, attributes |-> e.enriched,
             error |-> v.error_message,
             warnings |-> <<"Log validation failed: " \o v.error_message>>]
       ELSE [raised |-> FALSE, is_valid |-> TRUE, attributes |-> e.enriched, error |-> "",
             warnings |-> BodyWarnings(log_body)]

\* validate_and_enrich_log_record: the returned triple and the warnings logged
validate_and_enrich_log_record(log_body, attributes, environ) ==
    LET e == enrich_from_service_context(attributes, environ)
        v == validate_attributes(e.enriched)
    IN IF e.raised
       THEN [raised |-> TRUE, is_valid |-> FALSE, attributes |-> <<>>, error |-> "",
             warnings |-> <<>>]
       ELSE IF ~v.is_valid
       THEN [raised |-> FALSE, is_valid |-> FALSE, attributes |-> v.cleaned,
             error |-> v.error_message,
             warnings |-> <<"Log validation failed: " \o v.error_message>>]
       ELSE [raised |-> FALSE, is_valid |-> TRUE, attributes |-> v.cleaned, error |-> "",
             warnings |-> BodyWarnings(log_body)]

(***************************************************************************)
(* The dict object the caller passed, as it is when the call ends.  Each   *)
(* function first binds a copy (`attributes.copy() if attributes else {}`) *)
(* and assigns to the copy only.                                           *)
(***************************************************************************)
\* validate_attributes: cleaned is a copy, and nothing is assigned
validate_caller_dict(attributes) == attributes

\* enrich_from_service_context binding `enriched = attributes`, without the copy
enrich_caller_dict_NoCopy(attributes, environ) ==
    LET e == enrich_from_service_context(attributes, environ)
        e1 == SetDefault(attributes, "service.name",
                         getenv(environ, "OTEL_SERVICE_NAME", "unknown-service"))
        e2 == SetDefault(e1, "deployment.environment", getenv(environ, "ENVIRONMENT", "dev"))
        e3 == SetDefault(e2, "service.version", getenv(environ, "SERVICE_VERSION", "0.0.0"))
        e4 == SetDefault(e3, "host.name", getenv(environ, "HOSTNAME", "unknown-host"))
    IN IF e.raised THEN e4 ELSE e.enriched

\* enrich_from_service_context: the assignments go to enriched, the copy
enrich_caller_dict(attributes, environ) == attributes

\* validate_and_enrich_log_record hands attributes to enrich_from_service_context
\* only; validate_attributes receives the enriched dict
record_caller_dict(log_body, attributes, environ) == enrich_caller_dict(attributes, environ)

(***************************************************************************)
(* Inputs: the attribute sets, log bodies and process environments the     *)
(* calls are explored on.  A mandatory field is chosen among its options   *)
(* (Absent: the key is not in the dict); at most MaxExtra further items    *)
(* are taken from ExtraItems.                                              *)
(***************************************************************************)
Absent == [t |-> "absent", s |-> "", n |-> 0]

ServiceNameOptions ==
    {Absent, PyStr(""), PyStr("auth-api"), PyStr("MySecretValue"), PyInt(123)}

EnvironmentOptions == {Absent, PyStr("prod"), PyStr("production"), PyInt(0)}

LogLevelOptions == {Absent, PyStr("INFO"), PyStr("info"), PyNone}

EventDomainOptions == {Absent, PyStr("auth"), PyStr("session"), PyStr("billing")}

EventTypeOptions == {Absent, PyStr("access"), PyStr("login"), PyBool(FALSE)}

ExtraItems ==
    <<[k |-> "user.token", v |-> PyStr("abc")],
      [k |-> "note", v |-> PyStr("uses API_KEY here")],
      [k |-> "event.category", v |-> PyStr("security")],
      [k |-> "service.namespace", v |-> PyStr("custom")],
      [k |-> "retry.count", v |-> PyInt(3)]>>

Bodies == {"Request ok", "user Password is hunter2", "mail me@example.com the token"}

EnvNames == {"OTEL_SERVICE_NAME", "ENVIRONMENT", "SERVICE_VERSION", "HOSTNAME"}

Configured ==
    [name \in EnvNames |->
        CASE name = "OTEL_SERVICE_NAME" -> "Viewer-UI"
          [] name = "ENVIRONMENT" -> "staging"
          [] name = "SERVICE_VERSION" -> "1.2.3"
          [] OTHER -> "node-1"]

Unset == [name \in {} |-> ""]

Environs == {Unset, Configured}

Item(key, value) == IF value = Absent THEN <<>> ELSE <<[k |-> key, v |-> value]>>

RECURSIVE Pick(_, _, _)
Pick(seq, S, i) ==
    IF i > Len(seq) THEN <<>>
    ELSE (IF i \in S THEN <<seq[i]>> ELSE <<>>) \o Pick(seq, S, i + 1)

MakeAttributes(sn, de, ll, ed, et, S) ==
    Item("service.name", sn) \o Item("deployment.environment", de) \o Item("log.level", ll)
    \o Item("event.domain", ed) \o Item("event.type", et) \o Pick(ExtraItems, S, 1)

NoEnrich == [raised |-> FALSE, enriched |-> <<>>]

NoValidate == [is_valid |-> FALSE, error_message |-> "", cleaned |-> <<>>]

NoRecord ==
    [raised |-> FALSE, is_valid |-> FALSE, attributes |-> <<>>, error |-> "", warnings |-> <<>>]

NoStrip == <<"", "", "">>

(***************************************************************************)
(* State: one call of the module's functions on the chosen inputs          *)
(***************************************************************************)
VARIABLES attributes, log_body, environ, pc, enrichOut, enrichAgainOut, validateOut, recordOut,
          stripOut

(***************************************************************************)
(* State of the log_requests middleware of src/src/fastapi_otel_logging.py *)
(*   filters   the filters list of the shared logger "middleware"          *)
(*   reqpc     where each request is: "new", "awaiting" (suspended at      *)
(*             `await call_next(request)`) or "done"                       *)
(*   injector  the attributes_dict of each request's                       *)
(*             AttributeInjectorFilter                                     *)
(*   logged    the record each request emitted, with the owners of the     *)
(*             filters that were installed when it logged                  *)
(***************************************************************************)
VARIABLES filters, reqpc, injector, logged

mwVars == <<filters, reqpc, injector, logged>>

vars ==
    <<attributes, log_body, environ, pc, enrichOut, enrichAgainOut, validateOut, recordOut,
      stripOut, mwVars>>

Reqs == 1..MaxRequests

NoLog == [record |-> <<>>, filters |-> <<>>]

\* no request has arrived
MwIdle ==
    /\ filters = <<>>
    /\ reqpc = [r \in Reqs |-> "new"]
    /\ injector = [r \in Reqs |-> <<>>]
    /\ logged = [r \in Reqs |-> NoLog]

Init ==
    /\ \E sn \in ServiceNameOptions, de \in EnvironmentOptions, ll \in LogLevelOptions,
          ed \in EventDomainOptions, et \in EventTypeOptions,
          S \in {T \in SUBSET (1..Len(ExtraItems)) : Cardinality(T) <= MaxExtra} :
            attributes = MakeAttributes(sn, de, ll, ed, et, S)
    /\ log_body \in Bodies
    /\ environ \in Environs
    /\ pc = "idle"
    /\ enrichOut = NoEnrich
    /\ enrichAgainOut = NoEnrich
    /\ validateOut = NoValidate
    /\ recordOut = NoRecord
    /\ stripOut = NoStrip
    /\ MwIdle

\* enriched = LogAttributesEnricher.enrich_from_service_context(attributes)
Enrich ==
    /\ pc = "idle"
    /\ enrichOut' = enrich_from_service_context(attributes, environ)
    /\ attributes' = enrich_caller_dict(attributes, environ)
    /\ pc' = "enriched"
    /\ UNCHANGED <<log_body, environ, enrichAgainOut, validateOut, recordOut, stripOut, mwVars>>

\* the same call on the dict the first call returned
EnrichAgain ==
    /\ pc = "enriched"
    /\ ~enrichOut.raised
    /\ enrichAgainOut' = enrich_from_service_context(enrichOut.enriched, environ)
    /\ enrichOut' = [enrichOut EXCEPT !.enriched = enrich_caller_dict(enrichOut.enriched, environ)]
    /\ pc' = "enriched_again"
    /\ UNCHANGED <<attributes, log_body, environ, validateOut, recordOut, stripOut, mwVars>>

\* LogAttributesValidator.validate_attributes(attributes)
Validate ==
    /\ pc = "idle"
    /\ validateOut' = validate_attributes(attributes)
    /\ attributes' = validate_caller_dict(attributes)
    /\ pc' = "validated"
    /\ UNCHANGED <<log_body, environ, enrichOut, enrichAgainOut, recordOut, stripOut, mwVars>>

\* validate_and_enrich_log_record(log_body, attributes)
ValidateAndEnrich ==
    /\ pc = "idle"
    /\ recordOut' = validate_and_enrich_log_record(log_body, attributes, environ)
    /\ attributes' = record_caller_dict(log_body, attributes, environ)
    /\ pc' = "recorded"
    /\ UNCHANGED <<log_body, environ, enrichOut, enrichAgainOut, validateOut, stripOut, mwVars>>

Next == Enrich \/ EnrichAgain \/ Validate \/ ValidateAndEnrich

Spec == Init /\ [][Next]_vars

(***************************************************************************)
(* The same calls on attribute sets that exercise the two derivation       *)
(* tables: a service.name and an event.domain, each within and outside     *)
(* its table                                                               *)
(***************************************************************************)
TableServiceNames ==
    {Absent, PyStr(""), PyStr("auth-api"), PyStr("Session-GW"), PyStr("DICTATION_FRONTEND"),
     PyStr("dictation_backend-1"), PyStr("worklist-svc"), PyStr("Viewer"), PyStr("billing"),
     PyStr("viewer-auth"), PyInt(123)}

TableEventDomains ==
    {Absent, PyStr("auth"), PyStr("dictation_backend"), PyStr("viewer"), PyStr("billing"),
     PyStr("AUTH"), PyInt(7)}

InitTables ==
    /\ \E sn \in TableServiceNames, ed \in TableEventDomains :
            attributes = Item("service.name", sn) \o Item("event.domain", ed)
    /\ log_body = "Request ok"
    /\ environ \in Environs
    /\ pc = "idle"
    /\ enrichOut = NoEnrich
    /\ enrichAgainOut = NoEnrich
    /\ validateOut = NoValidate
    /\ recordOut = NoRecord
    /\ stripOut = NoStrip
    /\ MwIdle

SpecTables == InitTables /\ [][Next]_vars

(***************************************************************************)
(* The calls that read a log body, on bodies that hold card numbers,       *)
(* e-mail addresses and phone numbers                                      *)
(***************************************************************************)
TextBodies ==
    {"Request ok",
     "Card 1234-5678-9012-3456",
     "contact me@example.com now",
     "call 0912345678",
     "id 0912345678901234 end",
     "pay 1234567890123456@example.com",
     "sms 0912345678@example.com",
     "token 1234 5678 9012 3456 a@b.io 0987654321",
     "password 09123456789",
     "x 12345678901234567",
     "secret 0912-3456-7890-1234 0911222333",
     "mail A.B@c-d.org, 0900000000.",
     "ssn 0912345678 1234567890123456",
     "api_key me@example.com 0912345678"}

TextAttributes ==
    {<<>>,
     MakeAttributes(PyStr("auth-api"), PyStr("prod"), PyStr("INFO"), PyStr("auth"),
                    PyStr("access"), {})}

InitText ==
    /\ attributes \in TextAttributes
    /\ log_body \in TextBodies
    /\ environ \in Environs
    /\ pc = "idle"
    /\ enrichOut = NoEnrich
    /\ enrichAgainOut = NoEnrich
    /\ validateOut = NoValidate
    /\ recordOut = NoRecord
    /\ stripOut = NoStrip
    /\ MwIdle

\* LogAttributesValidator.strip_pii(log_body)
StripPii ==
    /\ pc = "idle"
    /\ stripOut' = strip_pii_steps(log_body)
    /\ pc' = "stripped"
    /\ UNCHANGED <<attributes, log_body, environ, enrichOut, enrichAgainOut, validateOut,
                   recordOut, mwVars>>

NextText == StripPii \/ ValidateAndEnrich

SpecText == InitText /\ [][NextText]_vars

(***************************************************************************)
(* The log_requests middleware.  Requests run as tasks of one event loop:  *)
(* the code between two awaits runs without interleaving, and a request    *)
(* is suspended at `await call_next(request)`.  The headers other than     *)
(* X-Service-Name and X-Event-Domain are absent and take their defaults;   *)
(* event.duration_ms, a clock reading, is left out of the record.          *)
(***************************************************************************)
\* str(uuid.uuid4()): a different string for every request
correlation_id(r) == "req-" \o IntStr(r)

\* request.headers.get(name, default)
HeaderOr(header, default) == IF header = Absent THEN PyStr(default) ELSE header

ServiceNameHeaders == {Absent, PyStr("auth-api")}

EventDomainHeaders == {Absent, PyStr("auth")}

base_attributes(r, service_name, event_domain, env) ==
    <<[k |-> "service.name", v |-> HeaderOr(service_name, "unknown-service")],
      [k |-> "service.version", v |-> PyStr(getenv(env, "SERVICE_VERSION", "1.0.0"))],
      [k |-> "deployment.environment", v |-> PyStr(getenv(env, "ENVIRONMENT", "dev"))],
      [k |-> "log.level", v |-> PyStr("INFO")],
      [k |-> "event.domain", v |-> HeaderOr(event_domain, "backend")],
      [k |-> "event.type", v |-> PyStr("access")],
      [k |-> "event.category", v |-> PyStr("api")],
      [k |-> "trace.id", v |-> PyStr(correlation_id(r))],
      [k |-> "http.method", v |-> PyStr("GET")],
      [k |-> "http.path", v |-> PyStr("/api/logs")],
      [k |-> "client.ip", v |-> PyStr("unknown")]>>

\* enriched_attrs: the validated and enriched attributes, or base_attributes
\* when the validation fails
enriched_attrs(base, env) ==
    LET out == validate_and_enrich_log_record("GET /api/logs", base, env)
    IN IF ~out.is_valid THEN base ELSE out.attributes

\* setattr(record, key, value)
SetAttr(record, key, value) ==
    IF Has(record, key)
    THEN [i \in 1..Len(record) |->
            IF record[i].k = key THEN [k |-> key, v |-> value] ELSE record[i]]
    ELSE Put(record, key, value)

RECURSIVE SetAttrs(_, _, _)
SetAttrs(record, dict, i) ==
    IF i > Len(dict) THEN record
    ELSE SetAttrs(SetAttr(record, dict[i].k, dict[i].v), dict, i + 1)

\* AttributeInjectorFilter.filter
InjectorFilter(f, record) == SetAttrs(record, f.attributes_dict, 1)

\* Logger.handle: every filter of the logger is applied, in order, to the
\* record that makeRecord built from extra
RECURSIVE ApplyFilters(_, _, _)
ApplyFilters(fs, record, i) ==
    IF i > Len(fs) THEN record ELSE ApplyFilters(fs, InjectorFilter(fs[i], record), i + 1)

IsOtherFilter(f) == ~f.injector

\* the filters without those that are AttributeInjectorFilter instances
WithoutInjectors(fs) == SelectSeq(fs, IsOtherFilter)

\* logger.removeFilter(injector), a no-op when the filter is not installed
RemoveFilter(fs, r) ==
    LET Kept(f) == f.owner # r IN SelectSeq(fs, Kept)

Owners(fs) == [i \in 1..Len(fs) |-> fs[i].owner]

Emit(fs, extra) == [record |-> ApplyFilters(fs, extra, 1), filters |-> Owners(fs)]

InitMw ==
    /\ attributes = <<>>
    /\ log_body = ""
    /\ environ \in Environs
    /\ pc = "idle"
    /\ enrichOut = NoEnrich
    /\ enrichAgainOut = NoEnrich
    /\ validateOut = NoValidate
    /\ recordOut = NoRecord
    /\ stripOut = NoStrip
    /\ MwIdle

valVars ==
    <<attributes, log_body, environ, pc, enrichOut, enrichAgainOut, validateOut, recordOut,
      stripOut>>

\* log_requests up to `await call_next(request)`: the request's attributes
\* are built and its injector replaces the injectors on the shared logger
Begin(r) ==
    /\ reqpc[r] = "new"
    /\ \E service_name \in ServiceNameHeaders, event_domain \in EventDomainHeaders :
          LET attrs == enriched_attrs(base_attributes(r, service_name, event_domain, environ),
                                      environ)
          IN /\ injector' = [injector EXCEPT ![r] = attrs]
             /\ filters' = Append(WithoutInjectors(filters),
                                  [owner |-> r, injector |-> TRUE, attributes_dict |-> attrs])
    /\ reqpc' = [reqpc EXCEPT ![r] = "awaiting"]
    /\ UNCHANGED <<logged, valVars>>

\* call_next returned a response: the request logs and removes its injector
Respond(r) ==
    /\ reqpc[r] = "awaiting"
    /\ \E status_code \in {200, 404} :
          logged' = [logged EXCEPT ![r] =
              Emit(filters,
                   injector[r]
                   \o <<[k |-> "http.status_code", v |-> PyInt(status_code)],
                        [k |-> "event.outcome",
                         v |-> PyStr(IF status_code < 400 THEN "success" ELSE "failure")]>>)]
    /\ filters' = RemoveFilter(filters, r)
    /\ reqpc' = [reqpc EXCEPT ![r] = "done"]
    /\ UNCHANGED <<injector, valVars>>

\* call_next raised: the request logs the error, removes its injector and
\* raises again
Fail(r) ==
    /\ reqpc[r] = "awaiting"
    /\ logged' = [logged EXCEPT ![r] =
          Emit(filters,
               injector[r]
               \o <<[k |-> "http.status_code", v |-> PyInt(500)],
                    [k |-> "event.outcome", v |-> PyStr("error")],
                    [k |-> "error.type", v |-> PyStr("RuntimeError")],
                    [k |-> "error.message", v |-> PyStr("boom")]>>)]
    /\ filters' = RemoveFilter(filters, r)
    /\ reqpc' = [reqpc EXCEPT ![r] = "done"]
    /\ UNCHANGED <<injector, valVars>>

NextMw == \E r \in Reqs : Begin(r) \/ Respond(r) \/ Fail(r)

SpecMw == InitMw /\ [][NextMw]_vars

(***************************************************************************)
(* Vocabulary of the properties, written from the specification            *)
(***************************************************************************)
CanonicalOrder ==
    <<"service.name", "deployment.environment", "log.level", "event.domain", "event.type">>

KeywordOrder ==
    <<"password", "secret", "token", "api_key", "credit_card", "ssn", "national_id">>

Levels == {"FATAL", "ERROR", "WARN", "INFO", "DEBUG", "TRACE"}

Environments == {"prod", "staging", "dev", "test"}

Domains == {"auth", "session", "dictation_frontend", "dictation_backend", "worklist", "viewer"}

Types == {"access", "error", "audit", "validation", "performance", "security"}

EnumOf(field) ==
    CASE field = "log.level" -> Levels
      [] field = "deployment.environment" -> Environments
      [] field = "event.domain" -> Domains
      [] OTHER -> Types

\* the field is absent from d or holds the empty string, zero, false or null
Lacks(d, field) ==
    \/ \A i \in 1..Len(d) : d[i].k # field
    \/ \E i \in 1..Len(d) :
         d[i].k = field /\ d[i].v \in {PyStr(""), PyInt(0), PyBool(FALSE), PyNone}

\* the field of d holds a string of its enumerated domain
WithinEnum(d, field) ==
    \E i \in 1..Len(d) : d[i].k = field /\ d[i].v.t = "str" /\ d[i].v.s \in EnumOf(field)

\* the text of a value, as it is printed
TextOf(v) == IF v.t = "str" THEN v.s ELSE Repr(v)

\* keyword is a case-insensitive substring of some value of d
InSomeValue(keyword, d) == \E i \in 1..Len(d) : Contains(keyword, Lower(TextOf(d[i].v)))

\* keyword is a case-insensitive substring of some key or value of d
InSomeKeyOrValue(keyword, d) ==
    InSomeValue(keyword, d) \/ \E i \in 1..Len(d) : Contains(keyword, Lower(d[i].k))

Min(S) == CHOOSE x \in S : \A y \in S : x <= y

(***************************************************************************)
(* C1  Whenever one of the five mandatory fields is absent or falsy,       *)
(* validate returns isValid = false with the message                       *)
(* "Missing mandatory attribute: <f>", f the first such field in the       *)
(* canonical order, whatever the other fields hold.                        *)
(***************************************************************************)
C1_FirstMissingReported ==
    (pc = "validated" /\ \E i \in 1..5 : Lacks(attributes, CanonicalOrder[i]))
    => LET first == Min({i \in 1..5 : Lacks(attributes, CanonicalOrder[i])})
       IN /\ ~validateOut.is_valid
          /\ validateOut.error_message = "Missing mandatory attribute: " \o CanonicalOrder[first]

\* service.name is set, log.level is null and event.type is absent: log.level is reported
C1_Witness ==
    /\ pc = "validated"
    /\ ~Lacks(attributes, "service.name")
    /\ ~Lacks(attributes, "deployment.environment")
    /\ \E i \in 1..Len(attributes) : attributes[i].k = "log.level" /\ attributes[i].v = PyNone
    /\ "event.type" \notin Keys(attributes)
    /\ validateOut.error_message = "Missing mandatory attribute: log.level"

(***************************************************************************)
(* C2  Whenever all five mandatory fields are present and non-empty, the   *)
(* four enumerated fields lie in their domains and no forbidden keyword is *)
(* a case-insensitive substring of any attribute value, validate returns   *)
(* isValid = true with an empty message, whatever the extra keys are named.*)
(***************************************************************************)
C2_ValidAccepted ==
    (/\ pc = "validated"
     /\ \A i \in 1..5 : ~Lacks(attributes, CanonicalOrder[i])
     /\ \A i \in 2..5 : WithinEnum(attributes, CanonicalOrder[i])
     /\ \A i \in 1..7 : ~InSomeValue(KeywordOrder[i], attributes))
    => (validateOut.is_valid /\ validateOut.error_message = "")

(***************************************************************************)
(* C3  validate applies its checks in the order mandatory fields,          *)
(* log.level, deployment.environment, event.domain, event.type, forbidden  *)
(* keywords; the message returned is that of the earliest failing check,   *)
(* and the keyword reported is the first of the keyword list that occurs,  *)
(* case-insensitively, in the serialized attribute set.                    *)
(***************************************************************************)
CheckFails(n, d) ==
    CASE n = 1 -> \E i \in 1..5 : Lacks(d, CanonicalOrder[i])
      [] n = 2 -> ~WithinEnum(d, "log.level")
      [] n = 3 -> ~WithinEnum(d, "deployment.environment")
      [] n = 4 -> ~WithinEnum(d, "event.domain")
      [] n = 5 -> ~WithinEnum(d, "event.type")
      [] OTHER -> \E i \in 1..7 : InSomeKeyOrValue(KeywordOrder[i], d)

ValueText(d, field) == TextOf(d[CHOOSE i \in 1..Len(d) : d[i].k = field].v)

CheckMessage(n, d) ==
    CASE n = 1 -> "Missing mandatory attribute: "
                  \o CanonicalOrder[Min({i \in 1..5 : Lacks(d, CanonicalOrder[i])})]
      [] n = 2 -> "Invalid log.level: " \o ValueText(d, "log.level")
      [] n = 3 -> "Invalid deployment.environment: " \o ValueText(d, "deployment.environment")
      [] n = 4 -> "Invalid event.domain: " \o ValueText(d, "event.domain")
      [] n = 5 -> "Invalid event.type: " \o ValueText(d, "event.type")
      [] OTHER -> "Forbidden keyword detected: "
                  \o KeywordOrder[Min({i \in 1..7 : InSomeKeyOrValue(KeywordOrder[i], d)})]

C3_EarliestCheckReported ==
    (pc = "validated" /\ \E n \in 1..6 : CheckFails(n, attributes))
    => /\ ~validateOut.is_valid
       /\ validateOut.error_message
            = CheckMessage(Min({n \in 1..6 : CheckFails(n, attributes)}), attributes)

\* 'MySecretValue' and the key user.token both match: an invalid event.type
\* is reported before either, and of the two keywords 'secret' comes first
C3_Witness ==
    /\ pc = "validated"
    /\ \E i \in 1..Len(attributes) :
         attributes[i].k = "service.name" /\ attributes[i].v = PyStr("MySecretValue")
    /\ "user.token" \in Keys(attributes)
    /\ validateOut.error_message = "Forbidden keyword detected: secret"

(***************************************************************************)
(* C4  enrich never fails: on every attribute set, a non-string            *)
(* service.name included, and under every process configuration, it        *)
(* returns an attribute set.                                               *)
(***************************************************************************)
C4_EnrichNeverFails == pc = "enriched" => ~enrichOut.raised

(***************************************************************************)
(* C5  Enrichment never overwrites a supplied value: every key of the      *)
(* input keeps its value in the output, under every configuration, and     *)
(* the keys added are among service.name, deployment.environment,          *)
(* service.version, host.name, service.namespace and event.category.       *)
(* (An output exists when the call returns.)                               *)
(***************************************************************************)
Enrichable ==
    {"service.name", "deployment.environment", "service.version", "host.name",
     "service.namespace", "event.category"}

ValueAt(d, key) == d[CHOOSE i \in 1..Len(d) : d[i].k = key].v

C5_SuppliedValuesKept ==
    (pc = "enriched" /\ ~enrichOut.raised)
    => /\ \A i \in 1..Len(attributes) :
            /\ \E j \in 1..Len(enrichOut.enriched) : enrichOut.enriched[j] = attributes[i]
            /\ \A j \in 1..Len(enrichOut.enriched) :
                 enrichOut.enriched[j].k = attributes[i].k
                 => enrichOut.enriched[j].v = attributes[i].v
       /\ Keys(enrichOut.enriched) \ Keys(attributes) \subseteq Enrichable

\* a configured process: the caller's service.name, environment and
\* event.category stay, host.name is added from the configuration
C5_Witness ==
    /\ pc = "enriched"
    /\ environ = Configured
    /\ ~enrichOut.raised
    /\ \E i \in 1..Len(attributes) :
         attributes[i] = [k |-> "service.name", v |-> PyStr("auth-api")]
    /\ \E i \in 1..Len(attributes) :
         attributes[i] = [k |-> "deployment.environment", v |-> PyStr("production")]
    /\ \E i \in 1..Len(attributes) :
         attributes[i] = [k |-> "event.category", v |-> PyStr("security")]
    /\ ValueAt(enrichOut.enriched, "service.name") = PyStr("auth-api")
    /\ ValueAt(enrichOut.enriched, "event.category") = PyStr("security")
    /\ ValueAt(enrichOut.enriched, "host.name") = PyStr("node-1")

(***************************************************************************)
(* C6  Enrichment is idempotent under a fixed configuration:               *)
(* enrich(enrich(x)) equals enrich(x).                                     *)
(***************************************************************************)
SameDict(d1, d2) ==
    /\ Len(d1) = Len(d2)
    /\ \A i \in 1..Len(d1) : \E j \in 1..Len(d2) : d1[i] = d2[j]
    /\ \A i \in 1..Len(d2) : \E j \in 1..Len(d1) : d2[i] = d1[j]

C6_EnrichIdempotent ==
    pc = "enriched_again"
    => (~enrichAgainOut.raised /\ SameDict(enrichAgainOut.enriched, enrichOut.enriched))

\* the empty set: the first call adds five fields, the second adds nothing
C6_Witness ==
    /\ pc = "enriched_again"
    /\ attributes = <<>>
    /\ Len(enrichOut.enriched) = 5
    /\ Len(enrichAgainOut.enriched) = 5

(***************************************************************************)
(* C7  For an input without event.category, the output of enrich holds     *)
(* event.category exactly when the input holds event.domain, and its value *)
(* is then the category-table image of event.domain.                       *)
(***************************************************************************)
CategoryTable(domain) ==
    CASE domain = "auth" -> "authentication"
      [] domain = "session" -> "backend"
      [] domain = "dictation_backend" -> "backend"
      [] domain \in {"dictation_frontend", "worklist", "viewer"} -> "frontend"

C7_CategoryIffDomain ==
    (pc = "enriched" /\ ~enrichOut.raised /\ "event.category" \notin Keys(attributes))
    => /\ ("event.category" \in Keys(enrichOut.enriched)) <=> ("event.domain" \in Keys(attributes))
       /\ \A i \in 1..Len(attributes) :
            (attributes[i].k = "event.domain" /\ attributes[i].v.t = "str"
               /\ attributes[i].v.s \in Domains)
            => ValueAt(enrichOut.enriched, "event.category")
                 = PyStr(CategoryTable(attributes[i].v.s))

\* enrich({event.domain: "auth"}) yields event.category = "authentication"
C7_Witness ==
    /\ pc = "enriched"
    /\ attributes = <<[k |-> "event.domain", v |-> PyStr("auth")]>>
    /\ ValueAt(enrichOut.enriched, "event.category") = PyStr("authentication")

(***************************************************************************)
(* C8  The result of validateAndEnrich does not depend on the log body:    *)
(* on the same attribute set any two bodies give the same (isValid,        *)
(* result, error); a forbidden keyword in the body neither makes isValid   *)
(* false nor changes the returned attribute set.                           *)
(***************************************************************************)
Returned(o) == <<o.raised, o.is_valid, o.attributes, o.error>>

AnyKeywordIn(text) == \E i \in 1..7 : Contains(KeywordOrder[i], Lower(text))

C8_BodyIndependent ==
    pc = "recorded"
    => \A other \in Bodies :
         Returned(validate_and_enrich_log_record(other, attributes, environ))
           = Returned(recordOut)

\* a body holding 'Password' on a valid record: still valid
C8_Witness ==
    /\ pc = "recorded"
    /\ AnyKeywordIn(log_body)
    /\ recordOut.is_valid
    /\ \E other \in Bodies : ~AnyKeywordIn(other)

(***************************************************************************)
(* C9  validateAndEnrich is enrich followed by validate: it returns        *)
(* (ok, enrich(a), err) with (ok, err, _) = validate(enrich(a)); err is    *)
(* empty on success; the valid auth-api/prod/INFO/auth/access record under *)
(* the default configuration gains service.version '0.0.0', host.name      *)
(* 'unknown-host', service.namespace 'identity' and event.category         *)
(* 'authentication', and with deployment.environment 'production' the call *)
(* returns (false, enriched copy,                                          *)
(* 'Invalid deployment.environment: production').                          *)
(***************************************************************************)
AuthRecord(environment) ==
    <<[k |-> "service.name", v |-> PyStr("auth-api")],
      [k |-> "deployment.environment", v |-> PyStr(environment)],
      [k |-> "log.level", v |-> PyStr("INFO")],
      [k |-> "event.domain", v |-> PyStr("auth")],
      [k |-> "event.type", v |-> PyStr("access")]>>

AuthAdded ==
    <<[k |-> "service.version", v |-> PyStr("0.0.0")],
      [k |-> "host.name", v |-> PyStr("unknown-host")],
      [k |-> "service.namespace", v |-> PyStr("identity")],
      [k |-> "event.category", v |-> PyStr("authentication")]>>

C9_EnrichThenValidate ==
    pc = "recorded"
    => LET e == enrich_from_service_context(attributes, environ)
           v == validate_attributes(e.enriched)
       IN /\ recordOut.raised = e.raised
          /\ ~e.raised =>
               /\ recordOut.is_valid = v.is_valid
               /\ recordOut.error = v.error_message
               /\ SameDict(recordOut.attributes, e.enriched)
               /\ recordOut.is_valid => recordOut.error = ""
          /\ (attributes = AuthRecord("prod") /\ environ = Unset) =>
               /\ recordOut.is_valid
               /\ recordOut.error = ""
               /\ SameDict(recordOut.attributes, AuthRecord("prod") \o AuthAdded)
          /\ (attributes = AuthRecord("production") /\ environ = Unset) =>
               /\ ~recordOut.is_valid
               /\ recordOut.error = "Invalid deployment.environment: production"
               /\ SameDict(recordOut.attributes, AuthRecord("production") \o AuthAdded)

\* the end-to-end failure of the specification
C9_Witness ==
    /\ pc = "recorded"
    /\ attributes = AuthRecord("production")
    /\ environ = Unset
    /\ recordOut.error = "Invalid deployment.environment: production"

(***************************************************************************)
(* C10  validateAndEnrich emits a warning whenever validation fails or the *)
(* body holds a forbidden keyword: a call whose attributes fail validation *)
(* emits a diagnostic carrying the error message, and a call whose body    *)
(* holds a forbidden keyword emits a diagnostic carrying the sanitized     *)
(* body, also when both hold.  (As stated: refuted below.)                 *)
(***************************************************************************)
Carries(warnings, payload) == \E i \in 1..Len(warnings) : Contains(payload, warnings[i])

C10_WarnsOnEither ==
    (pc = "recorded" /\ ~recordOut.raised)
    => /\ ~recordOut.is_valid => Carries(recordOut.warnings, recordOut.error)
       /\ AnyKeywordIn(log_body) => Carries(recordOut.warnings, strip_pii(log_body))

(***************************************************************************)
(* C10 as amended  A call whose attributes fail validation emits the       *)
(* diagnostic carrying the error message and nothing about the body; a     *)
(* call whose attributes pass validation and whose body holds a forbidden  *)
(* keyword emits a diagnostic carrying the sanitized body.                 *)
(***************************************************************************)
C10_WarnsOnFailureElseOnBody ==
    (pc = "recorded" /\ ~recordOut.raised)
    => /\ ~recordOut.is_valid =>
            recordOut.warnings = <<"Log validation failed: " \o recordOut.error>>
       /\ (recordOut.is_valid /\ AnyKeywordIn(log_body)) =>
            \E i \in 1..Len(recordOut.warnings) :
                recordOut.warnings[i] = "Log body sanitized: " \o strip_pii(log_body)

\* validation fails and the body holds 'token': the error diagnostic alone
C10_Witness ==
    /\ pc = "recorded"
    /\ attributes = AuthRecord("production")
    /\ log_body = "mail me@example.com the token"
    /\ recordOut.warnings
         = <<"Log validation failed: Invalid deployment.environment: production">>

(***************************************************************************)
(* C11  Forbidden keywords are stripped from the body before it is logged: *)
(* whenever validateAndEnrich finds a forbidden keyword in the log body,   *)
(* the sanitized body text of its diagnostic holds no forbidden keyword    *)
(* any more (case-insensitive).                                            *)
(***************************************************************************)
SanitizedPrefix == "Log body sanitized: "

\* the sanitized body texts among the diagnostics
SanitizedTexts(warnings) ==
    {SubSeq(warnings[i], Len(SanitizedPrefix) + 1, Len(warnings[i])) :
        i \in {j \in 1..Len(warnings) :
                 /\ Len(warnings[j]) >= Len(SanitizedPrefix)
                 /\ SubSeq(warnings[j], 1, Len(SanitizedPrefix)) = SanitizedPrefix}}

C11_KeywordsStripped ==
    (pc = "recorded" /\ ~recordOut.raised /\ recordOut.is_valid /\ AnyKeywordIn(log_body))
    => /\ SanitizedTexts(recordOut.warnings) # {}
       /\ \A text \in SanitizedTexts(recordOut.warnings) : ~AnyKeywordIn(text)

NamespaceTable(key) ==
    CASE key \in {"auth", "session"} -> "identity"
      [] key \in {"dictation_frontend", "worklist", "viewer"} -> "frontend"
      [] key = "dictation_backend" -> "backend"

C13_AsymmetricFallbacks ==
    (pc = "enriched" /\ ~enrichOut.raised)
    => /\ "service.namespace" \notin Keys(attributes) =>
            LET name == Lower(ValueAt(enrichOut.enriched, "service.name").s)
                found == {key \in Domains : Contains(key, name)}
                namespace == ValueAt(enrichOut.enriched, "service.namespace")
            IN /\ found = {} => namespace = PyStr("unknown")
               /\ found # {} => namespace \in {PyStr(NamespaceTable(key)) : key \in found}
       /\ \A i \in 1..Len(attributes) :
            (/\ attributes[i].k = "event.domain"
             /\ "event.category" \notin Keys(attributes)
             /\ ~(attributes[i].v.t = "str" /\ attributes[i].v.s \in Domains))
            => ValueAt(enrichOut.enriched, "event.category") = PyStr("frontend")

\* 'billing' is in neither table: namespace 'unknown', category 'frontend'
C13_Witness ==
    /\ pc = "enriched"
    /\ attributes = <<[k |-> "service.name", v |-> PyStr("billing")],
                      [k |-> "event.domain", v |-> PyStr("billing")]>>
    /\ ValueAt(enrichOut.enriched, "service.namespace") = PyStr("unknown")
    /\ ValueAt(enrichOut.enriched, "event.category") = PyStr("frontend")

(***************************************************************************)
(* C14  stripPii applies its replacements in the order card, e-mail,       *)
(* phone, each on the string the one before left, and no later pattern     *)
(* alters text an earlier replacement produced: 'Card 1234-5678-9012-3456' *)
(* -> 'Card [REDACTED_CARD]', 'contact me@example.com now' -> 'contact     *)
(* [REDACTED_EMAIL] now', 'call 0912345678' -> 'call [REDACTED_PHONE]',    *)
(* and a 16-digit run starting with 09 is redacted as a card, not as a     *)
(* phone.                                                                  *)
(***************************************************************************)
Occurrences(token, text) ==
    Cardinality({i \in 1..(Len(text) - Len(token) + 1) :
                    SubSeq(text, i, i + Len(token) - 1) = token})

C14_CardEmailPhoneInOrder ==
    pc = "stripped"
    => /\ log_body = "Card 1234-5678-9012-3456" => stripOut[3] = "Card [REDACTED_CARD]"
       /\ log_body = "contact me@example.com now" => stripOut[3] = "contact [REDACTED_EMAIL] now"
       /\ log_body = "call 0912345678" => stripOut[3] = "call [REDACTED_PHONE]"
       /\ log_body = "id 0912345678901234 end" => stripOut[3] = "id [REDACTED_CARD] end"
       \* the card pass runs before the e-mail pass, the e-mail pass before the phone pass
       /\ log_body = "pay 1234567890123456@example.com"
            => stripOut[3] = "pay [REDACTED_CARD]@example.com"
       /\ log_body = "sms 0912345678@example.com" => stripOut[3] = "sms [REDACTED_EMAIL]"
       \* what a pass wrote is still there, as often, after the later passes
       /\ Occurrences("[REDACTED_CARD]", stripOut[3]) = Occurrences("[REDACTED_CARD]", stripOut[1])
       /\ Occurrences("[REDACTED_EMAIL]", stripOut[3])
            = Occurrences("[REDACTED_EMAIL]", stripOut[2])
       /\ Occurrences("[REDACTED_CARD]", stripOut[1]) > 0 => Contains("[REDACTED_CARD]", stripOut[2])
       /\ Occurrences("[REDACTED_PHONE]", stripOut[2]) = 0

\* all three passes replace something, each leaving the earlier tokens alone
C14_Witness ==
    /\ pc = "stripped"
    /\ log_body = "token 1234 5678 9012 3456 a@b.io 0987654321"
    /\ stripOut = <<"token [REDACTED_CARD] a@b.io 0987654321",
                    "token [REDACTED_CARD] [REDACTED_EMAIL] 0987654321",
                    "token [REDACTED_CARD] [REDACTED_EMAIL] [REDACTED_PHONE]">>

(***************************************************************************)
(* C15  Under any interleaving of concurrent requests through the          *)
(* log_requests middleware, the record a request emits carries that        *)
(* request's own injected attributes (its trace.id, service.name, ...):    *)
(* no other request's AttributeInjectorFilter is applied to it, and the    *)
(* request's own filter is still installed on the shared logger when it    *)
(* logs.                                                                   *)
(***************************************************************************)
C15_OwnAttributesLogged ==
    \A r \in Reqs :
        reqpc[r] = "done"
        => /\ logged[r].filters = <<r>>
           /\ \A i \in 1..Len(injector[r]) :
                \E j \in 1..Len(logged[r].record) : logged[r].record[j] = injector[r][i]

(***************************************************************************)
(* C16  Because enrichment runs before validation, validateAndEnrich never *)
(* reports service.name or deployment.environment as missing or invalid    *)
(* when the caller omitted them and the process configuration is unset:    *)
(* the call returns, and a returned error concerns only log.level,         *)
(* event.domain, event.type or a forbidden keyword; with no attribute at   *)
(* all the error is "Missing mandatory attribute: log.level".  A service   *)
(* name the caller supplied as the empty string is not replaced and fails  *)
(* with "Missing mandatory attribute: service.name".                       *)
(***************************************************************************)
Begins(prefix, text) ==
    /\ Len(text) >= Len(prefix)
    /\ SubSeq(text, 1, Len(prefix)) = prefix

CallerFieldErrors ==
    {"Missing mandatory attribute: log.level",
     "Missing mandatory attribute: event.domain",
     "Missing mandatory attribute: event.type",
     "Invalid log.level: ",
     "Invalid event.domain: ",
     "Invalid event.type: ",
     "Forbidden keyword detected: "}

OmitsDefaulted ==
    /\ ~Has(attributes, "service.name")
    /\ ~Has(attributes, "deployment.environment")
    /\ environ = Unset

C16_DefaultedFieldsNeverReported ==
    pc = "recorded"
    => /\ OmitsDefaulted
          => /\ ~recordOut.raised
             /\ \/ recordOut.is_valid
                \/ \E prefix \in CallerFieldErrors : Begins(prefix, recordOut.error)
             /\ Get(recordOut.attributes, "service.name") = PyStr("unknown-service")
             /\ Get(recordOut.attributes, "deployment.environment") = PyStr("dev")
             /\ attributes = <<>>
                => /\ ~recordOut.is_valid
                   /\ recordOut.error = "Missing mandatory attribute: log.level"
       /\ (Has(attributes, "service.name") /\ Get(attributes, "service.name") = PyStr(""))
          => /\ ~recordOut.raised
             /\ ~recordOut.is_valid
             /\ recordOut.error = "Missing mandatory attribute: service.name"
             /\ Get(recordOut.attributes, "service.name") = PyStr("")

\* validateAndEnrich(body, {}) with nothing configured
C16_Witness ==
    /\ pc = "recorded"
    /\ attributes = <<>>
    /\ environ = Unset
    /\ ~recordOut.is_valid
    /\ recordOut.error = "Missing mandatory attribute: log.level"
    /\ Get(recordOut.attributes, "service.name") = PyStr("unknown-service")

====
